---- MODULE Spec2Model ----
(***************************************************************************)
(* Model of crypto.MessageVerifier (src/crypto/message_verifier.go):       *)
(* Generate, Verify, IsValid, DigestFor, secureCompare and checkInit.      *)
(*                                                                         *)
(* Strings are sequences of byte values (0..255).  The library primitives  *)
(* the file calls (strings.Split, base64.StdEncoding, hex, hmac) are       *)
(* modelled by what they compute; the keyed hash is a small keyed rolling  *)
(* hash of fixed output size standing in for HMAC (see Hmac).              *)
(***************************************************************************)
EXTENDS Integers, Sequences, FiniteSets, TLC

(***************************************************************************)
(* Bounds of the model.                                                    *)
(***************************************************************************)
\* longest text of a value handed to Generate
MaxText == 2
\* longest raw message handed to Verify (and longest forged data part)
MaxMsg == 4
\* longest operand of secureCompare in the stepwise comparison
MaxCmp == 3
\* number of goroutines sharing one Verifier
NThreads == 2

(***************************************************************************)
(* Bytes the source and the wire format name.                              *)
(***************************************************************************)
Dash == 45
Quote == 34
PadChar == 61
LF == 10
CR == 13

Sep == <<Dash, Dash>>

\* "Y U SET NO SECRET???!"
Sentinel ==
  <<89, 32, 85, 32, 83, 69, 84, 32, 78, 79, 32, 83, 69, 67, 82, 69, 84, 63, 63, 63, 33>>

(***************************************************************************)
(* Sequence helpers.                                                       *)
(***************************************************************************)
Drop(s, n) == SubSeq(s, n + 1, Len(s))

Take(s, n) == SubSeq(s, 1, n)

RECURSIVE SeqsUpTo(_, _)
SeqsUpTo(S, n) ==
  IF n = 0 THEN {<<>>}
  ELSE LET shorter == SeqsUpTo(S, n - 1)
       IN  shorter \cup {Append(s, c) : s \in {t \in shorter : Len(t) = n - 1}, c \in S}

Replace(s, i, c) == [s EXCEPT ![i] = c]

(***************************************************************************)
(* Bitwise operations on bytes (Go's ^ and | on int).                      *)
(***************************************************************************)
RECURSIVE BitXor(_, _)
BitXor(x, y) ==
  IF x = 0 THEN y
  ELSE IF y = 0 THEN x
  ELSE (((x % 2) + (y % 2)) % 2) + 2 * BitXor(x \div 2, y \div 2)

RECURSIVE BitOr(_, _)
BitOr(x, y) ==
  IF x = 0 THEN y
  ELSE IF y = 0 THEN x
  ELSE (IF x % 2 = 1 \/ y % 2 = 1 THEN 1 ELSE 0) + 2 * BitOr(x \div 2, y \div 2)

(***************************************************************************)
(* strings.Split(msg, "--"): the parts between non-overlapping separators, *)
(* scanned left to right.                                                  *)
(***************************************************************************)
SepIndex(s) ==
  LET hits == {i \in 1..(Len(s) - 1) : s[i] = Dash /\ s[i + 1] = Dash}
  IN  IF hits = {} THEN 0 ELSE CHOOSE i \in hits : \A j \in hits : i <= j

RECURSIVE Split(_)
Split(s) ==
  LET i == SepIndex(s)
  IN  IF i = 0 THEN <<s>>
      ELSE <<Take(s, i - 1)>> \o Split(Drop(s, i + 1))

(***************************************************************************)
(* base64.StdEncoding: standard alphabet, '=' padding.                     *)
(***************************************************************************)
B64Char(v) ==
  IF v < 26 THEN 65 + v
  ELSE IF v < 52 THEN 97 + (v - 26)
  ELSE IF v < 62 THEN 48 + (v - 52)
  ELSE IF v = 62 THEN 43
  ELSE 47

\* the decode map: the 6-bit value of an alphabet byte, 255 for any other byte
B64Val(c) ==
  IF c >= 65 /\ c <= 90 THEN c - 65
  ELSE IF c >= 97 /\ c <= 122 THEN c - 97 + 26
  ELSE IF c >= 48 /\ c <= 57 THEN c - 48 + 52
  ELSE IF c = 43 THEN 62
  ELSE IF c = 47 THEN 63
  ELSE 255

RECURSIVE EncodeToString(_)
EncodeToString(b) ==
  IF Len(b) = 0 THEN <<>>
  ELSE IF Len(b) = 1 THEN
    <<B64Char(b[1] \div 4), B64Char((b[1] % 4) * 16), PadChar, PadChar>>
  ELSE IF Len(b) = 2 THEN
    <<B64Char(b[1] \div 4), B64Char((b[1] % 4) * 16 + b[2] \div 16),
      B64Char((b[2] % 16) * 4), PadChar>>
  ELSE
    <<B64Char(b[1] \div 4), B64Char((b[1] % 4) * 16 + b[2] \div 16),
      B64Char((b[2] % 16) * 4 + b[3] \div 64), B64Char(b[3] % 64)>>
    \o EncodeToString(Drop(b, 3))

RECURSIVE StripNewlines(_)
StripNewlines(s) ==
  IF Len(s) = 0 THEN <<>>
  ELSE IF s[1] = LF \/ s[1] = CR THEN StripNewlines(Drop(s, 1))
  ELSE <<s[1]>> \o StripNewlines(Drop(s, 1))

IsB64(c) == B64Val(c) # 255

\* One quantum of StdEncoding.Strict() decoding: the bytes it contributes, whether
\* it failed, and whether decoding goes on after it.  q is the (up to four) input
\* bytes of the quantum, more says whether input follows it.
DecodeQuantum(q, more) ==
  LET v(i) == B64Val(q[i])
      fail == [bytes |-> <<>>, ok |-> FALSE, goon |-> FALSE]
  IN  IF Len(q) < 4 THEN fail
      ELSE IF ~(IsB64(q[1]) /\ IsB64(q[2])) THEN fail
      ELSE IF q[3] = PadChar THEN
        IF q[4] # PadChar THEN fail
        ELSE IF v(2) % 16 # 0 THEN fail
        ELSE [bytes |-> <<v(1) * 4 + v(2) \div 16>>, ok |-> ~more, goon |-> FALSE]
      ELSE IF ~IsB64(q[3]) THEN fail
      ELSE IF q[4] = PadChar THEN
        IF v(3) % 4 # 0 THEN fail
        ELSE [bytes |-> <<v(1) * 4 + v(2) \div 16, (v(2) % 16) * 16 + v(3) \div 4>>,
              ok |-> ~more, goon |-> FALSE]
      ELSE IF ~IsB64(q[4]) THEN fail
      ELSE [bytes |-> <<v(1) * 4 + v(2) \div 16, (v(2) % 16) * 16 + v(3) \div 4,
                        (v(3) % 4) * 64 + v(4)>>,
            ok |-> TRUE, goon |-> TRUE]

RECURSIVE DecodeQuanta(_)
DecodeQuanta(s) ==
  IF Len(s) = 0 THEN [bytes |-> <<>>, ok |-> TRUE]
  ELSE LET n == IF Len(s) < 4 THEN Len(s) ELSE 4
           r == DecodeQuantum(Take(s, n), Len(s) > 4)
       IN  IF ~r.goon THEN [bytes |-> r.bytes, ok |-> r.ok]
           ELSE LET t == DecodeQuanta(Drop(s, 4))
                IN  [bytes |-> r.bytes \o t.bytes, ok |-> t.ok]

\* base64.StdEncoding.Strict().DecodeString: the bytes decoded before the first
\* error, and whether there was none.
DecodeString(s) == DecodeQuanta(StripNewlines(s))

(***************************************************************************)
(* hex.EncodeToString: two lowercase hex digits per byte.                  *)
(***************************************************************************)
HexDigit(v) == IF v < 10 THEN 48 + v ELSE 97 + (v - 10)

RECURSIVE HexEncode(_)
HexEncode(b) ==
  IF Len(b) = 0 THEN <<>>
  ELSE <<HexDigit(b[1] \div 16), HexDigit(b[1] % 16)>> \o HexEncode(Drop(b, 1))

(***************************************************************************)
(* The keyed hash.  hmac.New(Hasher, Secret) is a library primitive; it is *)
(* modelled by a keyed rolling hash with the properties the file relies    *)
(* on: deterministic, dependent on hasher, key and every data byte, and of *)
(* a fixed output size per hasher (scaled down from sha1's 20 bytes).      *)
(***************************************************************************)
HashSize(h) == IF h = "sha1" THEN 2 ELSE 3

HashMult(h) == IF h = "sha1" THEN 31 ELSE 37

RECURSIVE Pow256(_)
Pow256(n) == IF n = 0 THEN 1 ELSE 256 * Pow256(n - 1)

RECURSIVE Absorb(_, _, _)
Absorb(h, acc, s) ==
  IF Len(s) = 0 THEN acc
  ELSE Absorb(h, (acc * HashMult(h) + s[1] + 1) % Pow256(HashSize(h)), Drop(s, 1))

RECURSIVE ToBytes(_, _)
ToBytes(x, n) == IF n = 0 THEN <<>> ELSE Append(ToBytes(x \div 256, n - 1), x % 256)

\* mac := hmac.New(hasher, key); mac.Write(data); mac.Sum(nil)
Hmac(h, key, data) ==
  ToBytes(Absorb(h, (Absorb(h, 7, key) * HashMult(h)) % Pow256(HashSize(h)), data),
          HashSize(h))

(***************************************************************************)
(* Values and the Serializer capability (MsgSerializer).  The interface is *)
(* implemented outside this file; three implementations stand for it:     *)
(*   "json"   a JSON-like text codec decoding into an untyped target:      *)
(*            strings are quoted, numbers are bare digits;                 *)
(*   "null"   a plain-text codec: a string is its own serialization and    *)
(*            every text unserializes to a string;                         *)
(*   "digits" a typed numeric codec accepting bare digits only.            *)
(* Each round-trips: Unserialize(Serialize(v)) = v whenever Serialize      *)
(* accepts v.  A failed Unserialize leaves the target as it was.           *)
(***************************************************************************)
Str(t) == [kind |-> "str", text |-> t]

Num(t) == [kind |-> "num", text |-> t]

Unset == [kind |-> "unset", text |-> <<>>]

Serializers == {"json", "null", "digits"}

IsDigits(t) == Len(t) > 0 /\ \A i \in 1..Len(t) : t[i] >= 48 /\ t[i] <= 57

IsQuoted(t) ==
  /\ Len(t) >= 2
  /\ t[1] = Quote
  /\ t[Len(t)] = Quote
  /\ \A i \in 2..(Len(t) - 1) : t[i] # Quote

Serialize(ser, v) ==
  IF ser = "json" THEN
    [text |-> IF v.kind = "str" THEN <<Quote>> \o v.text \o <<Quote>> ELSE v.text,
     ok |-> TRUE]
  ELSE IF ser = "null" THEN
    [text |-> IF v.kind = "str" THEN v.text ELSE <<>>, ok |-> v.kind = "str"]
  ELSE
    [text |-> IF v.kind = "num" THEN v.text ELSE <<>>, ok |-> v.kind = "num"]

Unserialize(ser, t, tgt) ==
  IF ser = "json" THEN
    IF IsDigits(t) THEN [val |-> Num(t), ok |-> TRUE]
    ELSE IF IsQuoted(t) THEN [val |-> Str(SubSeq(t, 2, Len(t) - 1)), ok |-> TRUE]
    ELSE [val |-> tgt, ok |-> FALSE]
  ELSE IF ser = "null" THEN [val |-> Str(t), ok |-> TRUE]
  ELSE IF IsDigits(t) THEN [val |-> Num(t), ok |-> TRUE]
  ELSE [val |-> tgt, ok |-> FALSE]

(***************************************************************************)
(* Errors.  The file returns plain errors; ErrKind gives the category the  *)
(* specification's taxonomy puts each message in.                          *)
(***************************************************************************)
NoErr == ""

ErrVerifierNil == "MessageVerifier not set"

ErrSerializerNil == "Serializer not set"

ErrSecretNil == "Secret not set"

ErrEmpty == "Invalid signature - empty message"

ErrParts == "Invalid signature - bad data --"

ErrCompare == "Invalid signature - bad data (compare)"

ErrUnserialize == "failed to unserialize both quoted and raw data: unserialize error"

ErrSerialize == "serialize error"

ErrKind(e) ==
  IF e = NoErr THEN "nil"
  ELSE IF e \in {ErrVerifierNil, ErrSerializerNil, ErrSecretNil} THEN "ConfigError"
  ELSE IF e \in {ErrEmpty, ErrParts, ErrCompare} THEN "InvalidSignature"
  ELSE IF e = ErrUnserialize THEN "DeserializationError"
  ELSE "SerializationError"

(***************************************************************************)
(* The Verifier.                                                           *)
(***************************************************************************)
NilSecret == [nil |-> TRUE, bytes |-> <<>>]

SecretOf(b) == [nil |-> FALSE, bytes |-> b]

\* an event of a call: the step taken, the bytes it was given, whether it succeeded
Ev(e, a, k) == [ev |-> e, arg |-> a, ok |-> k]

\* checkInit without its check of the Secret
checkInitNoSecret(isNil, ser, hasher, secret) ==
  IF isNil THEN [err |-> ErrVerifierNil, hasher |-> hasher]
  ELSE IF ser = "nil" THEN [err |-> ErrSerializerNil, hasher |-> hasher]
  ELSE [err |-> NoErr, hasher |-> IF hasher = "nil" THEN "sha1" ELSE hasher]

\* checkInit: the error it returns and the Hasher field after it
checkInit(isNil, ser, hasher, secret) ==
  IF isNil THEN [err |-> ErrVerifierNil, hasher |-> hasher]
  ELSE IF ser = "nil" THEN [err |-> ErrSerializerNil, hasher |-> hasher]
  ELSE LET h == IF hasher = "nil" THEN "sha1" ELSE hasher
       IN  IF secret.nil THEN [err |-> ErrSecretNil, hasher |-> h]
           ELSE [err |-> NoErr, hasher |-> h]

DigestFor(hasher, secret, data) ==
  IF secret.nil THEN Sentinel
  ELSE HexEncode(Hmac(hasher, secret.bytes, data))

\* res = int(b[i]) ^ int(a[i]): the difference assigned, not accumulated
CmpStepAssign(res, x, y) == BitXor(y, x)

\* res |= int(b[i]) ^ int(a[i])
CmpStep(res, x, y) == BitOr(res, BitXor(y, x))

\* i < len(a)   (i counts from 1 here)
CmpLoopCond(i, a) == i <= Len(a)

RECURSIVE CmpLoop(_, _, _, _)
CmpLoop(a, b, i, res) ==
  IF CmpLoopCond(i, a) THEN CmpLoop(a, b, i + 1, CmpStep(res, a[i], b[i])) ELSE res

\* a comparison whose loop starts one byte late
secureCompareSkipFirst(strA, strB) ==
  IF Len(strA) # Len(strB) THEN FALSE
  ELSE CmpLoop(strA, strB, 2, 0) = 0

secureCompare(strA, strB) ==
  IF Len(strA) # Len(strB) THEN FALSE
  ELSE CmpLoop(strA, strB, 1, 0) = 0

\* len(dataDigest) < 2: trailing parts ignored
BadPartsFewer(dataDigest) == Len(dataDigest) < 2

\* len(dataDigest) != 2
BadParts(dataDigest) == Len(dataDigest) # 2

\* the two attempts in the other order: the raw form first
TryUnserializeRawFirst(ser, decodedData, tgt) ==
  LET decodedString == <<Quote>> \o decodedData \o <<Quote>>
      first == Unserialize(ser, decodedData, tgt)
      second == Unserialize(ser, decodedString, first.val)
  IN  IF first.ok THEN
        [err |-> NoErr, target |-> first.val,
         trace |-> <<Ev("Unserialize", decodedData, TRUE)>>]
      ELSE
        [err |-> IF second.ok THEN NoErr ELSE ErrUnserialize,
         target |-> second.val,
         trace |-> <<Ev("Unserialize", decodedData, FALSE),
                     Ev("Unserialize", decodedString, second.ok)>>]

\* the deserialization of Verify: the quoted form first, the raw form if that fails
TryUnserialize(ser, decodedData, tgt) ==
  LET decodedString == <<Quote>> \o decodedData \o <<Quote>>
      first == Unserialize(ser, decodedString, tgt)
      second == Unserialize(ser, decodedData, first.val)
  IN  IF first.ok THEN
        [err |-> NoErr, target |-> first.val,
         trace |-> <<Ev("Unserialize", decodedString, TRUE)>>]
      ELSE
        [err |-> IF second.ok THEN NoErr ELSE ErrUnserialize,
         target |-> second.val,
         trace |-> <<Ev("Unserialize", decodedString, FALSE),
                     Ev("Unserialize", decodedData, second.ok)>>]

\* Verify(msg, target): the error, the target afterwards, the Hasher field
\* afterwards and the steps taken
Verify(isNil, ser, hasher, secret, msg, tgt) ==
  LET ci == checkInit(isNil, ser, hasher, secret)
      stop(e, tr) == [err |-> e, target |-> tgt, hasher |-> ci.hasher, trace |-> tr]
      dataDigest == Split(msg)
      data == dataDigest[1]
      digest == dataDigest[2]
      expected == DigestFor(ci.hasher, secret, data)
      same == secureCompare(digest, expected)
      dec == DecodeString(data)
      un == TryUnserialize(ser, dec.bytes, tgt)
      checked == <<Ev("DigestFor", data, TRUE), Ev("secureCompare", digest, same)>>
  IN  IF ci.err # NoErr THEN stop(ci.err, <<>>)
      ELSE IF msg = <<>> THEN stop(ErrEmpty, <<>>)
      ELSE IF BadParts(dataDigest) THEN stop(ErrParts, <<>>)
      ELSE IF ~same THEN stop(ErrCompare, checked)
      ELSE [err |-> un.err, target |-> un.target, hasher |-> ci.hasher,
            trace |-> checked \o <<Ev("DecodeString", data, dec.ok)>> \o un.trace]

\* Generate(value): the error, the string returned, the Hasher field afterwards
\* and the steps taken
Generate(isNil, ser, hasher, secret, value) ==
  LET ci == checkInit(isNil, ser, hasher, secret)
      s == Serialize(ser, value)
      str == EncodeToString(s.text)
      digest == DigestFor(ci.hasher, secret, str)
  IN  IF ci.err # NoErr THEN
        [err |-> ci.err, ret |-> <<>>, hasher |-> ci.hasher, trace |-> <<>>]
      ELSE IF ~s.ok THEN
        [err |-> ErrSerialize, ret |-> <<>>, hasher |-> ci.hasher,
         trace |-> <<Ev("Serialize", value.text, FALSE)>>]
      ELSE
        [err |-> NoErr, ret |-> str \o Sep \o digest, hasher |-> ci.hasher,
         trace |-> <<Ev("Serialize", value.text, TRUE), Ev("EncodeToString", s.text, TRUE),
                     Ev("DigestFor", str, TRUE)>>]

(***************************************************************************)
(* State.                                                                  *)
(***************************************************************************)
VARIABLES
  cryptNil,     \* the *MessageVerifier receiver is nil
  Secret,       \* crypt.Secret
  Hasher,       \* crypt.Hasher: "nil", "sha1" or "custom"
  Serializer,   \* crypt.Serializer: "nil" or one of Serializers
  signed,       \* the signed string the caller holds, with the value it was made from
  op,           \* the call that has returned: "idle" when none
  value,        \* Generate's argument
  msg,          \* Verify's argument
  err,          \* the error returned
  ret,          \* the string Generate returned
  target,       \* Verify's output target after the call
  trace,        \* the steps the call took
  \* secureCompare, statement by statement
  strA,         \* its first argument
  strB,         \* its second argument
  cmpPc,        \* "off", "start", "loop" or "done"
  cmpI,         \* the loop index i (from 1)
  cmpRes,       \* res
  cmpSteps,     \* the number of loop bodies executed
  cmpRet,       \* the value returned
  \* goroutines sharing the Verifier, field access by field access
  tpc,          \* where each goroutine is
  top,          \* the operation each goroutine is in
  thash,        \* the Hasher value each goroutine's DigestFor read
  twrote        \* whether the goroutine has itself written the Hasher field

callVars == <<op, value, msg, err, ret, target, trace>>

cmpVars == <<strA, strB, cmpPc, cmpI, cmpRes, cmpSteps, cmpRet>>

thrVars == <<tpc, top, thash, twrote>>

vars == <<cryptNil, Secret, Hasher, Serializer, signed, callVars, cmpVars, thrVars>>

config == <<cryptNil, Secret, Serializer>>

(***************************************************************************)
(* Inputs.                                                                 *)
(***************************************************************************)
Secrets == {<<>>, <<115>>}

Hashers == {"sha1", "custom"}

Values ==
  {Str(t) : t \in SeqsUpTo({97}, MaxText)}
    \cup {Num(t) : t \in SeqsUpTo({53}, MaxText) \ {<<>>}}

\* raw messages: separators, a base64 byte and padding
RawMsgs == SeqsUpTo({Dash, 81, PadChar}, MaxMsg)

\* data parts signed with the Verifier's own key: base64 bytes, padding, a foreign byte
ForgedData == SeqsUpTo({81, PadChar, 33}, MaxMsg)

TamperBytes == {Dash, PadChar, LF, 48, 81, 97}

EffHasher == IF Hasher = "nil" THEN "sha1" ELSE Hasher

ForgedMsgs == {d \o Sep \o DigestFor(EffHasher, Secret, d) : d \in ForgedData}

\* the positions of a signed string that lie in its data or its digest portion
TamperPositions(s) == (1..Len(s)) \ {SepIndex(s), SepIndex(s) + 1}

Tampered(s) == {Replace(s, i, c) : i \in TamperPositions(s), c \in TamperBytes} \ {s}

Extended(s) == {s \o Sep \o x : x \in {<<>>, <<81>>}}

VerifyInputs ==
  RawMsgs \cup ForgedMsgs
    \cup (IF signed.has THEN {signed.str} \cup Tampered(signed.str) \cup Extended(signed.str)
          ELSE {})

NoSigned == [has |-> FALSE, value |-> Unset, str |-> <<>>]

(***************************************************************************)
(* Init: a Verifier as the caller constructed it, before any call.         *)
(***************************************************************************)
Idle ==
  /\ op = "idle"
  /\ value = Unset
  /\ msg = <<>>
  /\ err = NoErr
  /\ ret = <<>>
  /\ target = Unset
  /\ trace = <<>>

Threads == 1..NThreads

CmpOff ==
  /\ strA = <<>>
  /\ strB = <<>>
  /\ cmpPc = "off"
  /\ cmpI = 0
  /\ cmpRes = 0
  /\ cmpSteps = 0
  /\ cmpRet = FALSE

ThreadsOff ==
  /\ tpc = [t \in Threads |-> "off"]
  /\ top = [t \in Threads |-> "none"]
  /\ thash = [t \in Threads |-> "none"]
  /\ twrote = [t \in Threads |-> FALSE]

Init ==
  /\ CmpOff
  /\ ThreadsOff
  /\ cryptNil \in BOOLEAN
  /\ Secret \in {NilSecret} \cup {SecretOf(b) : b \in Secrets}
  /\ Hasher \in {"nil"} \cup Hashers
  /\ Serializer \in {"nil"} \cup Serializers
  /\ cryptNil => (Secret = NilSecret /\ Hasher = "nil" /\ Serializer = "nil")
  /\ signed = NoSigned
  /\ Idle

(***************************************************************************)
(* Actions: one per public operation, and the caller taking the result.    *)
(***************************************************************************)
IsValid ==
  /\ op = "idle"
  /\ LET r == checkInit(cryptNil, Serializer, Hasher, Secret)
     IN  /\ op' = "IsValid"
         /\ err' = r.err
         /\ Hasher' = r.hasher
  /\ UNCHANGED <<config, signed, value, msg, ret, target, trace, cmpVars, thrVars>>

DoGenerate ==
  /\ op = "idle"
  /\ \E v \in Values :
       LET r == Generate(cryptNil, Serializer, Hasher, Secret, v)
       IN  /\ op' = "Generate"
           /\ value' = v
           /\ err' = r.err
           /\ ret' = r.ret
           /\ Hasher' = r.hasher
           /\ trace' = r.trace
  /\ UNCHANGED <<config, signed, msg, target, cmpVars, thrVars>>

DoVerify ==
  /\ op = "idle"
  /\ \E m \in VerifyInputs :
       LET r == Verify(cryptNil, Serializer, Hasher, Secret, m, Unset)
       IN  /\ op' = "Verify"
           /\ msg' = m
           /\ err' = r.err
           /\ target' = r.target
           /\ Hasher' = r.hasher
           /\ trace' = r.trace
  /\ UNCHANGED <<config, signed, value, ret, cmpVars, thrVars>>

\* the caller takes the result of the call: it keeps a signed string Generate made
Return ==
  /\ op # "idle"
  /\ signed' = IF op = "Generate" /\ err = NoErr
               THEN [has |-> TRUE, value |-> value, str |-> ret]
               ELSE signed
  /\ op' = "idle"
  /\ value' = Unset
  /\ msg' = <<>>
  /\ err' = NoErr
  /\ ret' = <<>>
  /\ target' = Unset
  /\ trace' = <<>>
  /\ UNCHANGED <<config, Hasher, cmpVars, thrVars>>

Next == IsValid \/ DoGenerate \/ DoVerify \/ Return

Spec == Init /\ [][Next]_vars

(***************************************************************************)
(* Properties of the sequential calls (specification Spec).                *)
(***************************************************************************)
Configured == ~cryptNil /\ Serializer # "nil" /\ ~Secret.nil

Called(e) == \E i \in 1..Len(trace) : trace[i].ev = e

IsUnserialize(e) == e.ev = "Unserialize"

UnserializeCalls == SelectSeq(trace, IsUnserialize)

DigestMatched == \E i \in 1..Len(trace) : trace[i].ev = "secureCompare" /\ trace[i].ok

\* the serializers stood in for MsgSerializer round-trip, as the interface requires
SerializersRoundTrip ==
  \A ser \in Serializers, v \in Values :
    Serialize(ser, v).ok =>
      Unserialize(ser, Serialize(ser, v).text, Unset) = [val |-> v, ok |-> TRUE]

\* C1: round trip.  Verify of the string Generate returned for v, on the same
\* configured Verifier, returns no error and leaves v in the output target.
C1_RoundTrip ==
  (op = "Verify" /\ Configured /\ signed.has /\ msg = signed.str)
    => (err = NoErr /\ target = signed.value)

\* C2: tamper detection.  Verify of a string Generate returned with one byte of
\* its data portion or of its digest portion replaced by a different byte fails
\* with an InvalidSignature error.
C2_TamperDetected ==
  (op = "Verify" /\ Configured /\ signed.has /\ msg \in Tampered(signed.str))
    => ErrKind(err) = "InvalidSignature"

C2_Witness ==
  /\ op = "Verify"
  /\ Configured
  /\ signed.has
  /\ msg \in Tampered(signed.str)
  /\ Len(Split(msg)) = 2
  /\ Split(msg)[1] # Split(signed.str)[1]
  /\ Split(msg)[2] = Split(signed.str)[2]
  /\ err = ErrCompare

\* C3: malformed input.  On a configured Verifier, Verify of the empty string, of
\* a string without "--" and of a string that splits into three or more parts
\* fails with InvalidSignature, never calls Unserialize and leaves the output
\* target unchanged.
C3_MalformedRejected ==
  (op = "Verify" /\ Configured /\ (msg = <<>> \/ Len(Split(msg)) # 2))
    => /\ ErrKind(err) = "InvalidSignature"
       /\ ~Called("Unserialize")
       /\ target = Unset

C3_Witness ==
  /\ op = "Verify"
  /\ Configured
  /\ signed.has
  /\ msg \in Extended(signed.str)
  /\ Len(Split(msg)) = 3
  /\ err = ErrParts

\* C4: config gating.  Generate and Verify on a Verifier without Serializer or
\* without Secret fail with a ConfigError before any step is taken: nothing is
\* serialized, encoded, digested or unserialized, Generate returns no string and
\* Verify leaves the target unset.
C4_ConfigGating ==
  (op \in {"Generate", "Verify"} /\ (Serializer = "nil" \/ Secret.nil))
    => /\ ErrKind(err) = "ConfigError"
       /\ trace = <<>>
       /\ ret = <<>>
       /\ target = Unset

C4_Witness ==
  /\ op = "Verify"
  /\ Serializer # "nil"
  /\ Secret.nil
  /\ Len(Split(msg)) = 2
  /\ Split(msg)[2] = Sentinel
  /\ err = ErrSecretNil

\* C5: strict decoding.  Verify of data--DigestFor(data), data not valid strict
\* padded base64, fails with InvalidSignature and never calls Unserialize.
C5_StrictDecoding ==
  (/\ op = "Verify"
   /\ Configured
   /\ \E d \in ForgedData :
        ~DecodeString(d).ok /\ msg = d \o Sep \o DigestFor(Hasher, Secret, d))
    => (ErrKind(err) = "InvalidSignature" /\ ~Called("Unserialize"))

\* C7: wire form.  Every string Generate returns without error splits on "--"
\* into exactly two non-empty halves, the first the padded base64 of the
\* serialized bytes, the second DigestFor of the first.
C7_WireForm ==
  (op = "Generate" /\ err = NoErr)
    => LET parts == Split(ret)
       IN  /\ Len(parts) = 2
           /\ parts[1] # <<>>
           /\ parts[2] # <<>>
           /\ DecodeString(parts[1]) = [bytes |-> Serialize(Serializer, value).text, ok |-> TRUE]
           /\ parts[2] = DigestFor(Hasher, Secret, parts[1])

\* C8: structure check.  For a non-empty input that does not split on "--" into
\* exactly two non-empty parts, Verify fails with the malformed-structure error
\* before any digest is computed.
C8_StructureCheck ==
  (/\ op = "Verify"
   /\ Configured
   /\ msg # <<>>
   /\ ~(Len(Split(msg)) = 2 /\ Split(msg)[1] # <<>> /\ Split(msg)[2] # <<>>))
    => (err = ErrParts /\ ~Called("DigestFor"))

\* C10: two-phase deserialization.  Unserialize is called only after the digest
\* matched, at most twice: first on the quoted decoded bytes, then on the raw
\* decoded bytes if and only if the first call failed.  Verify returns no error
\* with the result of the first call that succeeded, and a deserialization error
\* exactly when both failed.
C10_TwoPhase ==
  (op = "Verify")
    => LET un == UnserializeCalls
           decoded == DecodeString(Split(msg)[1]).bytes
           quoted == <<Quote>> \o decoded \o <<Quote>>
       IN  /\ Len(un) <= 2
           /\ (Len(un) > 0) <=> DigestMatched
           /\ \A i \in 1..Len(trace) :
                trace[i].ev = "Unserialize" =>
                  \E j \in 1..(i - 1) : trace[j].ev = "secureCompare" /\ trace[j].ok
           /\ Len(un) > 0 => un[1].arg = quoted
           /\ (Len(un) = 2) <=> (Len(un) > 0 /\ ~un[1].ok)
           /\ Len(un) = 2 => un[2].arg = decoded
           /\ Len(un) > 0 =>
                /\ (err = NoErr) <=> (\E i \in 1..Len(un) : un[i].ok)
                /\ (err = ErrUnserialize) <=> (\A i \in 1..Len(un) : ~un[i].ok)
                /\ un[1].ok => target = Unserialize(Serializer, quoted, Unset).val
                /\ (~un[1].ok /\ un[2].ok) => target = Unserialize(Serializer, decoded, Unset).val
           /\ (err = ErrUnserialize) => (Len(un) = 2)

C10_Witness ==
  /\ op = "Verify"
  /\ Len(UnserializeCalls) = 2
  /\ UnserializeCalls[2].ok
  /\ err = NoErr
  /\ target # Unset

(***************************************************************************)
(* secureCompare statement by statement (specification SpecCmp).           *)
(***************************************************************************)
CmpBytes == {0, 1, 255}

InitCmp ==
  /\ cryptNil = FALSE
  /\ Secret = SecretOf(<<115>>)
  /\ Hasher = "sha1"
  /\ Serializer = "json"
  /\ signed = NoSigned
  /\ Idle
  /\ ThreadsOff
  /\ strA \in SeqsUpTo(CmpBytes, MaxCmp)
  /\ strB \in SeqsUpTo(CmpBytes, MaxCmp)
  /\ cmpPc = "start"
  /\ cmpI = 0
  /\ cmpRes = 0
  /\ cmpSteps = 0
  /\ cmpRet = FALSE

CmpFrame == UNCHANGED <<cryptNil, Secret, Hasher, Serializer, signed, callVars, thrVars, strA, strB>>

\* if len(a) != len(b) { return false }; res := 0; i := 0
CmpCheckLen ==
  /\ cmpPc = "start"
  /\ IF Len(strA) # Len(strB)
     THEN cmpPc' = "done" /\ cmpRet' = FALSE /\ UNCHANGED <<cmpI, cmpRes>>
     ELSE cmpPc' = "loop" /\ cmpI' = 1 /\ cmpRes' = 0 /\ UNCHANGED cmpRet
  /\ UNCHANGED cmpSteps
  /\ CmpFrame

\* one iteration of the loop body
CmpIterate ==
  /\ cmpPc = "loop"
  /\ CmpLoopCond(cmpI, strA)
  /\ cmpRes' = CmpStep(cmpRes, strA[cmpI], strB[cmpI])
  /\ cmpI' = cmpI + 1
  /\ cmpSteps' = cmpSteps + 1
  /\ UNCHANGED <<cmpPc, cmpRet>>
  /\ CmpFrame

\* return res == 0
CmpReturn ==
  /\ cmpPc = "loop"
  /\ ~CmpLoopCond(cmpI, strA)
  /\ cmpRet' = (cmpRes = 0)
  /\ cmpPc' = "done"
  /\ UNCHANGED <<cmpI, cmpRes, cmpSteps>>
  /\ CmpFrame

NextCmp == CmpCheckLen \/ CmpIterate \/ CmpReturn

SpecCmp == InitCmp /\ [][NextCmp]_vars

\* C9: secureCompare returns true exactly when its arguments are equal byte
\* for byte; with unequal lengths it returns after the length check without a
\* loop step, and with equal lengths it executes exactly len(a) loop steps,
\* wherever the first difference is.
C9_SecureCompare ==
  /\ cmpPc = "done" =>
       /\ cmpRet <=> (strA = strB)
       /\ cmpRet = secureCompare(strA, strB)
       /\ cmpSteps = (IF Len(strA) = Len(strB) THEN Len(strA) ELSE 0)
  /\ cmpPc = "loop" => cmpSteps = cmpI - 1

C9_Witness ==
  /\ cmpPc = "done"
  /\ Len(strA) = Len(strB)
  /\ Len(strA) >= 2
  /\ strA[1] # strB[1]
  /\ strA[Len(strA)] = strB[Len(strB)]
  /\ cmpSteps = Len(strA)
  /\ ~cmpRet

(***************************************************************************)
(* Goroutines sharing one Verifier (specification SpecConc).  The file     *)
(* uses no synchronisation, so each access to a field is a step of its     *)
(* own and accesses of different goroutines are unordered.  A read of the  *)
(* Hasher field observes a write that does not happen after it and is not  *)
(* hidden by a later write ordered before it: the goroutine's own write    *)
(* if it made one, else the value set up by the caller or, once another    *)
(* goroutine has written, that write.                                      *)
(***************************************************************************)
InitConc ==
  /\ cryptNil = FALSE
  /\ Secret \in {NilSecret, SecretOf(<<115>>)}
  /\ Hasher \in {"nil"} \cup Hashers
  /\ Serializer \in {"nil", "json"}
  /\ signed = NoSigned
  /\ Idle
  /\ CmpOff
  /\ tpc = [t \in Threads |-> "idle"]
  /\ top = [t \in Threads |-> "none"]
  /\ thash = [t \in Threads |-> "none"]
  /\ twrote = [t \in Threads |-> FALSE]

ConcFrame == UNCHANGED <<cryptNil, Secret, Serializer, signed, callVars, cmpVars>>

\* the values a read of crypt.Hasher by goroutine t may observe
Observable(t) ==
  IF twrote[t] THEN {Hasher}
  ELSE IF \E u \in Threads : twrote[u] THEN {"nil", Hasher}
  ELSE {Hasher}

\* a goroutine calls Generate, Verify or IsValid
TCall(t) ==
  /\ tpc[t] = "idle"
  /\ \E o \in {"Generate", "Verify", "IsValid"} : top' = [top EXCEPT ![t] = o]
  /\ tpc' = [tpc EXCEPT ![t] = "ci_serializer"]
  /\ thash' = [thash EXCEPT ![t] = "none"]
  /\ UNCHANGED <<Hasher, twrote>>
  /\ ConcFrame

\* checkInit: if crypt.Serializer == nil
TCheckSerializer(t) ==
  /\ tpc[t] = "ci_serializer"
  /\ tpc' = [tpc EXCEPT ![t] = IF Serializer = "nil" THEN "done" ELSE "ci_hasher"]
  /\ UNCHANGED <<Hasher, top, thash, twrote>>
  /\ ConcFrame

\* checkInit: if crypt.Hasher == nil
TCheckHasher(t) ==
  /\ tpc[t] = "ci_hasher"
  /\ \E h \in Observable(t) :
       tpc' = [tpc EXCEPT ![t] = IF h = "nil" THEN "ci_setHasher" ELSE "ci_secret"]
  /\ UNCHANGED <<Hasher, top, thash, twrote>>
  /\ ConcFrame

\* checkInit: crypt.Hasher = sha1.New
TSetHasher(t) ==
  /\ tpc[t] = "ci_setHasher"
  /\ Hasher' = "sha1"
  /\ twrote' = [twrote EXCEPT ![t] = TRUE]
  /\ tpc' = [tpc EXCEPT ![t] = "ci_secret"]
  /\ UNCHANGED <<top, thash>>
  /\ ConcFrame

\* checkInit: if crypt.Secret == nil; IsValid returns after checkInit
TCheckSecret(t) ==
  /\ tpc[t] = "ci_secret"
  /\ tpc' = [tpc EXCEPT ![t] =
               IF Secret.nil \/ top[t] = "IsValid" THEN "done" ELSE "df_secret"]
  /\ UNCHANGED <<Hasher, top, thash, twrote>>
  /\ ConcFrame

\* DigestFor: if crypt.Secret == nil
TDigestSecret(t) ==
  /\ tpc[t] = "df_secret"
  /\ tpc' = [tpc EXCEPT ![t] = IF Secret.nil THEN "done" ELSE "df_hasher"]
  /\ UNCHANGED <<Hasher, top, thash, twrote>>
  /\ ConcFrame

\* DigestFor: hmac.New(crypt.Hasher, crypt.Secret) and the digest computed with it
TDigestHasher(t) ==
  /\ tpc[t] = "df_hasher"
  /\ \E h \in Observable(t) : thash' = [thash EXCEPT ![t] = h]
  /\ tpc' = [tpc EXCEPT ![t] = "done"]
  /\ UNCHANGED <<Hasher, top, twrote>>
  /\ ConcFrame

\* the call returns
TReturn(t) ==
  /\ tpc[t] = "done"
  /\ tpc' = [tpc EXCEPT ![t] = "idle"]
  /\ top' = [top EXCEPT ![t] = "none"]
  /\ thash' = [thash EXCEPT ![t] = "none"]
  /\ UNCHANGED <<Hasher, twrote>>
  /\ ConcFrame

NextConc ==
  \E t \in Threads :
    \/ TCall(t)
    \/ TCheckSerializer(t)
    \/ TCheckHasher(t)
    \/ TSetHasher(t)
    \/ TCheckSecret(t)
    \/ TDigestSecret(t)
    \/ TDigestHasher(t)
    \/ TReturn(t)

SpecConc == InitConc /\ [][NextConc]_vars

\* a goroutine is about to write crypt.Hasher while another is about to read or
\* write it, with nothing ordering the two accesses
HasherRace ==
  \E t, u \in Threads :
    /\ t # u
    /\ tpc[t] = "ci_setHasher"
    /\ tpc[u] \in {"ci_hasher", "ci_setHasher", "df_hasher"}

\* C6: concurrent use is safe.  With Secret and Serializer set and the fields
\* never mutated by the caller, no interleaving of Generate, Verify and IsValid
\* has a write of the Hasher field concurrent with another goroutine's access of
\* it, and every digest is computed with the one hash in force (the default
\* when the field was left unset).
C6_ConcurrentSafe ==
  (Serializer # "nil" /\ ~Secret.nil)
    => /\ ~HasherRace
       /\ \A t \in Threads : thash[t] \in {"none", Hasher}

====
